---- MODULE Spec2Model ----
(***************************************************************************)
(* Model of src/src/utils/logging.py: the library-scoped logging shim      *)
(* (verbosity controller, default handler singleton guarded by _lock,      *)
(* emit-once and advisory wrappers, warnings capture, formatters, the      *)
(* progress bar gate).                                                     *)
(*                                                                         *)
(* The module state (module globals, the library root logger's fields,     *)
(* the process environment) is held in the variables below.  Every source  *)
(* statement that changes it is an operator from a state record to a state *)
(* record; the public functions are compositions of these operators.       *)
(*   Spec          one caller: every public function is one action         *)
(*   SpecFirstUse  several threads: the same statements, one step each,    *)
(*                 interleaved, with _lock as in the source                *)
(*   SpecOnce      one caller of warning_once / info_once                  *)
(*   SpecAdvice    one caller of warning_advice / warning                  *)
(*   SpecCapture   one caller of captureWarnings, with resets              *)
(*   SpecFormat    one caller of enable_explicit_format / reset_format     *)
(*   SpecBars      one caller of the progress bar functions and objects    *)
(*   SpecInitReset several threads running the initializer and the reset   *)
(***************************************************************************)
EXTENDS Integers, Sequences, FiniteSets

\* ------------------------------------------------------------------ bounds

\* handlers the initializer may create in one behaviour (resets are capped)
MaxCreated == 2
\* caller-supplied handler objects
NUserHandlers == 1
\* threads of SpecFirstUse
NThreads == 2
\* records of one kind that warning_advice may emit in SpecAdvice
MaxRecords == 2
\* objects the progress bar factory may return in one behaviour
MaxBars == 2

\* ------------------------------------------------- logging's level numbers

NOTSET == 0
DEBUG == 10
INFO == 20
WARNING == 30
ERROR == 40
CRITICAL == 50

\* Python's None, for a handler reference
None == 0
\* os.getenv(...) of a variable that is not in the environment
Unset == "<unset>"

\* ------------------------------------------------------------ module data

\* the keys of log_levels, in the dict's order
LevelNames == <<"detail", "debug", "info", "warning", "error", "critical">>

log_levels ==
    [n \in {LevelNames[i] : i \in 1..Len(LevelNames)} |->
        CASE n = "detail" -> DEBUG
          [] n = "debug" -> DEBUG
          [] n = "info" -> INFO
          [] n = "warning" -> WARNING
          [] n = "error" -> ERROR
          [] n = "critical" -> CRITICAL]

default_log_level == WARNING

\* values of TRANSFORMERS_VERBOSITY: absent, empty, the six names, another name
EnvValues == {Unset, "", "bogus"} \cup DOMAIN log_levels

\* the five levels set_verbosity's documentation names
Levels == {DEBUG, INFO, WARNING, ERROR, CRITICAL}

DefaultIds == 1..MaxCreated
UserHandlers == {0 - k : k \in 1..NUserHandlers}
AllHandlers == DefaultIds \cup UserHandlers

Threads == 1..NThreads

\* __name__.split(".")[0] of src/utils/logging.py
LibraryName == "src"
ChildName == "src.child"
LoggerNames == {LibraryName, ChildName}

\* the level of Python's root logger, the library root logger's parent,
\* as logging sets it at import
PyRootLevel == WARNING

VARIABLES
    default_handler,   \* _default_handler: None or the handler object's identity
    created,           \* how many StreamHandler objects line 133 has constructed
    handlers,          \* library root logger .handlers (a list)
    level,             \* library root logger .level
    propagate,         \* library root logger .propagate
    formatter,         \* handler object -> its formatter
    py_root_records,   \* records emitted on Python's root logger (line 94)
    env_verbosity,     \* os.environ TRANSFORMERS_VERBOSITY
    env_no_advisory,   \* os.environ TRANSFORMERS_NO_ADVISORY_WARNINGS
    warning_once_memo, \* lru_cache of warning_once: the keys held
    info_once_memo,    \* lru_cache of info_once: the keys held
    records,           \* records emitted by the library's loggers, counted
    lock,              \* _lock: 0 when free, else the thread holding it
    pc,                \* thread -> where it is in its call
    op,                \* thread -> the call it runs
    last,              \* the call that returned most recently, and its outcome
    call_site,         \* where the latest warning_once / info_once call was made
    pyw_handlers,      \* handlers of the logger "py.warnings"
    pyw_level,         \* level of the logger "py.warnings"
    warnings_captured, \* logging.captureWarnings' switch
    tqdm_active,       \* _tqdm_active
    hf_disabled,       \* huggingface_hub's progress bars switch
    bars,              \* the objects the tqdm factory has returned
    tqdm_lock,         \* the lock of the tqdm class of tqdm.auto
    factory_lock,      \* the _lock attribute of the factory object
    ret                \* what the latest progress bar call returned

cfgvars == <<default_handler, created, handlers, level, propagate, formatter,
             py_root_records>>
envvars == <<env_verbosity, env_no_advisory>>
logvars == <<warning_once_memo, info_once_memo, records>>
thrvars == <<lock, pc, op>>
warnvars == <<pyw_handlers, pyw_level, warnings_captured>>
barvars == <<tqdm_active, hf_disabled, bars, tqdm_lock, factory_lock, ret>>
vars == <<cfgvars, envvars, logvars, thrvars, last, call_site, warnvars,
          barvars>>

\* ------------------------------------------------- the logging primitives

Range(s) == {s[i] : i \in 1..Len(s)}

Count(s, h) == Cardinality({i \in 1..Len(s) : s[i] = h})

\* bool(x) of what os.getenv returned: None and "" are falsy
Truthy(v) == v # Unset /\ v # ""

\* Logger.addHandler: appends unless the handler is already in the list
addHandler(hs, h) == IF h \in Range(hs) THEN hs ELSE Append(hs, h)

\* Logger.removeHandler: removes the handler if it is in the list
removeHandler(hs, h) == SelectSeq(hs, LAMBDA x : x # h)

\* Logger.getEffectiveLevel of the library root logger: its own level unless
\* that is NOTSET, then its parent's
getEffectiveLevel(lvl) == IF lvl # NOTSET THEN lvl ELSE PyRootLevel

\* Logger.isEnabledFor of a library logger with no level of its own
isEnabledFor(lvl, severity) == severity >= getEffectiveLevel(lvl)


\* the message arguments callers pass
Msgs == {"X", "Y"}

\* a LogRecord, by the fields that tell records apart here: the logger it was
\* made on, its level, the function that called Logger.warning / .info, the
\* message
RecordKinds ==
    {k \in [logger : LoggerNames, levelno : {INFO, WARNING},
            funcName : {"warning_once", "info_once", "warning_advice"},
            msg : Msgs] :
        k.levelno = IF k.funcName = "info_once" THEN INFO ELSE WARNING}

\* Logger.warning / Logger.info on a library logger: one more record when the
\* logger is enabled for the severity, nothing otherwise
Log(recs, lvl, l, severity, fn, m) ==
    IF isEnabledFor(lvl, severity)
    THEN [recs EXCEPT ![[logger |-> l, levelno |-> severity, funcName |-> fn,
                         msg |-> m]] = @ + 1]
    ELSE recs

\* ------------------------------------------------------- the module state

\* the state the verbosity controller reads and writes, as one record
Cur ==
    [default_handler |-> default_handler, created |-> created,
     handlers |-> handlers, level |-> level, propagate |-> propagate,
     formatter |-> formatter, py_root_records |-> py_root_records]

Become(s) ==
    /\ default_handler' = s.default_handler
    /\ created' = s.created
    /\ handlers' = s.handlers
    /\ level' = s.level
    /\ propagate' = s.propagate
    /\ formatter' = s.formatter
    /\ py_root_records' = s.py_root_records

\* what a call returned: raised is TRUE for an AssertionError, val is an
\* integer result, logger the name of a returned logger; inited tells whether
\* the call constructed the default handler (it ran lines 133-152)
Returned(name, arg, val, logger) ==
    [op |-> name, arg |-> arg, raised |-> FALSE, val |-> val,
     logger |-> logger, msg |-> "", inited |-> FALSE]
Raised(name, arg) ==
    [op |-> name, arg |-> arg, raised |-> TRUE, val |-> 0,
     logger |-> "", msg |-> "", inited |-> FALSE]
\* a call of a logger's method with one message argument, which returns None
Logged(name, logger, m) ==
    [op |-> name, arg |-> 0, raised |-> FALSE, val |-> 0,
     logger |-> logger, msg |-> m, inited |-> FALSE]
NoCall == Returned("", 0, 0, "")

\* the places in a caller's code a once-call is written at
CallSites == {"site_a", "site_b"}
NoSite == "<no call>"

\* locks: the one tqdm makes for itself, and the ones callers pass to set_lock
DefaultLock == "TqdmDefaultWriteLock"
UserLocks == {"lock_a", "lock_b"}
NoLock == "<None>"

\* the iterables callers wrap in a progress bar
Iterables == {<<"p">>, <<"p", "q">>}

\* what a progress bar call returned: on is the index in bars of the object
\* the method was called on (0 for a module function or the factory), raised
\* tells a TypeError, obj is the index in bars of a returned object (0 when
\* the result is no such object), lock a returned lock (NoLock for None),
\* yielded what an iteration yielded, reached whether the call got as far as
\* tqdm.auto's tqdm class, enabled a returned truth value
NoBarCall ==
    [op |-> "", on |-> 0, raised |-> FALSE, obj |-> 0, lock |-> NoLock,
     yielded |-> << >>, reached |-> FALSE, enabled |-> FALSE]
BarReturned(name, i) == [NoBarCall EXCEPT !.op = name, !.on = i]
BarRaised(name, i) == [NoBarCall EXCEPT !.op = name, !.on = i, !.raised = TRUE]

\* ------------------------------------------- _get_default_logging_level

\* the level it returns for the value e of TRANSFORMERS_VERBOSITY
\* (a variant that gives NOTSET for a name it does not know)
DefaultLevelUnknownNotset(e) ==
    IF Truthy(e)
    THEN IF e \in DOMAIN log_levels THEN log_levels[e] ELSE NOTSET
    ELSE default_log_level
get_default_logging_level(e) ==
    IF Truthy(e) /\ e \in DOMAIN log_levels THEN log_levels[e]
    ELSE default_log_level

\* the record line 94 emits on Python's root logger: the option and the names
UnknownOptionRecord(e) == [option |-> e, valid |-> LevelNames]

\* the records on Python's root logger after the call
warn_unknown_option(recs, e) ==
    IF Truthy(e) /\ e \notin DOMAIN log_levels
        /\ WARNING >= PyRootLevel
    THEN Append(recs, UnknownOptionRecord(e))
    ELSE recs

\* ------------------------------------- _configure_library_root_logger

\* line 133: a new StreamHandler, with no formatter, becomes _default_handler
CfgCreate(s) ==
    [s EXCEPT !.created = s.created + 1,
              !.default_handler = s.created + 1]

\* line 143
CfgAttach(s) ==
    [s EXCEPT !.handlers = addHandler(s.handlers, s.default_handler)]

\* line 145, with the warning of lines 94-97
CfgSetLevel(s, e) ==
    [s EXCEPT !.level = get_default_logging_level(e),
              !.py_root_records = warn_unknown_option(s.py_root_records, e)]

\* lines 147-149
\* (a variant that installs the formatter whenever the level is DEBUG)
CfgFormatterAtDebug(s, e) ==
    IF get_default_logging_level(e) = DEBUG
    THEN [s EXCEPT !.formatter[s.default_handler] = "detail"] ELSE s
CfgFormatter(s, e) ==
    IF e = "detail"
    THEN [s EXCEPT !.formatter[s.default_handler] = "detail"]
    ELSE s

\* line 152
\* (a variant that leaves the flag as it is)
CfgPropagateKept(s) == s
CfgPropagate(s) == [s EXCEPT !.propagate = FALSE]

\* lines 130-152, the body run under _lock
\* (a variant without the early return of lines 130-131: it attaches the
\* handler and sets the level and the flag again)
ConfigureRepeats(s, e) ==
    IF s.default_handler # None
    THEN CfgPropagate(CfgFormatter(CfgSetLevel(CfgAttach(s), e), e))
    ELSE CfgPropagate(CfgFormatter(CfgSetLevel(CfgAttach(CfgCreate(s)), e), e))
\* (a variant that never initializes)
ConfigureSkipped(s, e) == s
configure_library_root_logger(s, e) ==
    IF s.default_handler # None THEN s
    ELSE CfgPropagate(CfgFormatter(CfgSetLevel(CfgAttach(CfgCreate(s)), e), e))

\* line 163
\* (a variant that leaves the handler attached)
ResetLeavesAttached(s) == s
ResetDetach(s) ==
    [s EXCEPT !.handlers = removeHandler(s.handlers, s.default_handler)]

\* line 164
ResetSetLevel(s) == [s EXCEPT !.level = NOTSET]

\* line 165
ResetClear(s) == [s EXCEPT !.default_handler = None]

\* lines 159-165, the body run under _lock
\* (a variant without the setLevel(NOTSET) of line 164)
ResetKeepsLevel(s) ==
    IF s.default_handler = None THEN s
    ELSE ResetClear(ResetDetach(s))
reset_library_root_logger(s) ==
    IF s.default_handler = None THEN s
    ELSE ResetClear(ResetSetLevel(ResetDetach(s)))


\* ------------------------------------------------- the public functions
\* Each takes the module state s and the environment's TRANSFORMERS_VERBOSITY
\* e, and gives the state after the call (st) and what the call returned (out).

\* get_logger's name argument: None, or the name of a logger below the root
NoName == "<none>"
NameArgs == {NoName, ChildName}

\* the part of each function after its _configure_library_root_logger()
\* call, on the state c that call left

get_logger_after(c, name) ==
    [st |-> c,
     out |-> Returned("get_logger", 0, 0,
                      IF name = NoName THEN LibraryName ELSE name)]

get_verbosity_after(c) ==
    [st |-> c,
     out |-> Returned("get_verbosity", 0, getEffectiveLevel(c.level), "")]

set_verbosity_after(c, name, arg, verbosity) ==
    [st |-> [c EXCEPT !.level = verbosity],
     out |-> Returned(name, arg, 0, "")]

\* (a variant that detaches from another logger than the library root)
DisableDetachesElsewhere(c) ==
    IF c.default_handler = None
    THEN [st |-> c, out |-> Raised("disable_default_handler", 0)]
    ELSE [st |-> c, out |-> Returned("disable_default_handler", 0, 0, "")]
disable_default_handler_after(c) ==
    IF c.default_handler = None
    THEN [st |-> c, out |-> Raised("disable_default_handler", 0)]
    ELSE [st |-> [c EXCEPT
                    !.handlers = removeHandler(c.handlers, c.default_handler)],
          out |-> Returned("disable_default_handler", 0, 0, "")]

\* (a variant that appends to .handlers instead of calling addHandler)
EnableAppends(c) ==
    IF c.default_handler = None
    THEN [st |-> c, out |-> Raised("enable_default_handler", 0)]
    ELSE [st |-> [c EXCEPT !.handlers = Append(c.handlers, c.default_handler)],
          out |-> Returned("enable_default_handler", 0, 0, "")]
enable_default_handler_after(c) ==
    IF c.default_handler = None
    THEN [st |-> c, out |-> Raised("enable_default_handler", 0)]
    ELSE [st |-> [c EXCEPT
                    !.handlers = addHandler(c.handlers, c.default_handler)],
          out |-> Returned("enable_default_handler", 0, 0, "")]

add_handler_after(c, handler) ==
    IF handler = None
    THEN [st |-> c, out |-> Raised("add_handler", handler)]
    ELSE [st |-> [c EXCEPT !.handlers = addHandler(c.handlers, handler)],
          out |-> Returned("add_handler", handler, 0, "")]

\* line 295 asserts that the handler is NOT in the root logger's handlers
remove_handler_after(c, handler) ==
    IF ~(handler # None /\ handler \notin Range(c.handlers))
    THEN [st |-> c, out |-> Raised("remove_handler", handler)]
    ELSE [st |-> [c EXCEPT !.handlers = removeHandler(c.handlers, handler)],
          out |-> Returned("remove_handler", handler, 0, "")]

disable_propagation_after(c) ==
    [st |-> [c EXCEPT !.propagate = FALSE],
     out |-> Returned("disable_propagation", 0, 0, "")]

enable_propagation_after(c) ==
    [st |-> [c EXCEPT !.propagate = TRUE],
     out |-> Returned("enable_propagation", 0, 0, "")]

\* the functions, from call to return

get_logger(s, e, name) ==
    get_logger_after(configure_library_root_logger(s, e), name)

get_verbosity(s, e) ==
    get_verbosity_after(configure_library_root_logger(s, e))

\* set_verbosity and its fixed-level wrappers: lines 239-240
\* (a variant that sets the level before the initialization, not after)
SetLevelBeforeConfigure(name, arg, s, e, verbosity) ==
    [st |-> configure_library_root_logger([s EXCEPT !.level = verbosity], e),
     out |-> Returned(name, arg, 0, "")]
SetLevelOf(name, arg, s, e, verbosity) ==
    set_verbosity_after(configure_library_root_logger(s, e),
                        name, arg, verbosity)

set_verbosity(s, e, verbosity) ==
    SetLevelOf("set_verbosity", verbosity, s, e, verbosity)

set_verbosity_info(s, e) == SetLevelOf("set_verbosity_info", 0, s, e, INFO)
set_verbosity_warning(s, e) ==
    SetLevelOf("set_verbosity_warning", 0, s, e, WARNING)
set_verbosity_debug(s, e) == SetLevelOf("set_verbosity_debug", 0, s, e, DEBUG)
set_verbosity_error(s, e) == SetLevelOf("set_verbosity_error", 0, s, e, ERROR)

disable_default_handler(s, e) ==
    disable_default_handler_after(configure_library_root_logger(s, e))

enable_default_handler(s, e) ==
    enable_default_handler_after(configure_library_root_logger(s, e))

add_handler(s, e, handler) ==
    add_handler_after(configure_library_root_logger(s, e), handler)

remove_handler(s, e, handler) ==
    remove_handler_after(configure_library_root_logger(s, e), handler)

disable_propagation(s, e) ==
    disable_propagation_after(configure_library_root_logger(s, e))

enable_propagation(s, e) ==
    enable_propagation_after(configure_library_root_logger(s, e))

\* a thread's call: the function, its handler or level argument, its name
\* argument; inited as in last; overlapped tells whether it was made while
\* another thread held _lock
ThreadCall(name, arg, logger, held) ==
    [op |-> name, arg |-> arg, name |-> logger, inited |-> FALSE,
     overlapped |-> held]
NoThreadCall == ThreadCall("", 0, NoName, FALSE)

\* ------------------------------------------------------ the initial state

\* the progress bar state after import, given what huggingface_hub's
\* are_progress_bars_disabled() answered at line 74
InitProgressBars(disabled) ==
    /\ hf_disabled = disabled
    /\ tqdm_active = ~disabled
    /\ bars = << >>
    /\ tqdm_lock = DefaultLock
    /\ factory_lock = Unset
    /\ ret = NoBarCall

\* the module as imported: nothing configured, the root logger as
\* logging.getLogger creates it (no handlers, NOTSET, propagate True)
InitLogging ==
    /\ default_handler = None
    /\ created = 0
    /\ handlers = << >>
    /\ level = NOTSET
    /\ propagate = TRUE
    /\ formatter = [h \in AllHandlers |-> "none"]
    /\ py_root_records = << >>
    /\ warning_once_memo = {}
    /\ info_once_memo = {}
    /\ records = [k \in RecordKinds |-> 0]
    /\ lock = 0
    /\ pc = [t \in Threads |-> "idle"]
    /\ op = [t \in Threads |-> NoThreadCall]
    /\ last = NoCall
    /\ call_site = NoSite
    /\ pyw_handlers = << >>
    /\ pyw_level = NOTSET
    /\ warnings_captured = FALSE

\* the state after import where huggingface_hub's bars are not disabled
InitModule == InitLogging /\ InitProgressBars(FALSE)

Init ==
    /\ InitModule
    /\ env_verbosity \in EnvValues
    /\ env_no_advisory = Unset

\* -------------------------------------------- one caller: Spec's actions

Do(r) ==
    /\ Become(r.st)
    /\ last' = [r.out EXCEPT !.inited = (r.st.created # created)]
    /\ UNCHANGED <<warnvars, barvars, call_site>>
    /\ UNCHANGED <<envvars, logvars, thrvars>>

GetLogger == \E n \in NameArgs : Do(get_logger(Cur, env_verbosity, n))

GetVerbosity == Do(get_verbosity(Cur, env_verbosity))

SetVerbosity == \E v \in Levels : Do(set_verbosity(Cur, env_verbosity, v))

SetVerbosityInfo == Do(set_verbosity_info(Cur, env_verbosity))

SetVerbosityWarning == Do(set_verbosity_warning(Cur, env_verbosity))

SetVerbosityDebug == Do(set_verbosity_debug(Cur, env_verbosity))

SetVerbosityError == Do(set_verbosity_error(Cur, env_verbosity))

DisableDefaultHandler == Do(disable_default_handler(Cur, env_verbosity))

EnableDefaultHandler == Do(enable_default_handler(Cur, env_verbosity))

AddHandler ==
    \E h \in UserHandlers \cup {None} : Do(add_handler(Cur, env_verbosity, h))

RemoveHandler ==
    \E h \in UserHandlers \cup {None} :
        Do(remove_handler(Cur, env_verbosity, h))

DisablePropagation == Do(disable_propagation(Cur, env_verbosity))

EnablePropagation == Do(enable_propagation(Cur, env_verbosity))

\* _reset_library_root_logger; a reset that would let the initializer
\* construct more than MaxCreated handlers is left out
Reset ==
    /\ default_handler = None \/ created < MaxCreated
    /\ Become(reset_library_root_logger(Cur))
    /\ last' = Returned("_reset_library_root_logger", 0, 0, "")
    /\ UNCHANGED <<warnvars, barvars, call_site>>
    /\ UNCHANGED <<envvars, logvars, thrvars>>

Next ==
    \/ GetLogger
    \/ GetVerbosity
    \/ SetVerbosity
    \/ SetVerbosityInfo
    \/ SetVerbosityWarning
    \/ SetVerbosityDebug
    \/ SetVerbosityError
    \/ DisableDefaultHandler
    \/ EnableDefaultHandler
    \/ AddHandler
    \/ RemoveHandler
    \/ DisablePropagation
    \/ EnablePropagation
    \/ Reset

Spec == Init /\ [][Next]_vars


\* ------------------------------------------------ properties under Spec
\* In an action property [][A]_vars a step with last'.op = name that changes
\* the state is a call of that function: last is the state before the call
\* returned, last' what the call returned.

EnableDisable == {"enable_default_handler", "disable_default_handler"}

SetVerbosityOps ==
    {"set_verbosity", "set_verbosity_info", "set_verbosity_warning",
     "set_verbosity_debug", "set_verbosity_error"}

\* C2 (as claimed): remove_handler(h) of a handler h that is attached to the
\* library root logger returns normally and leaves h detached; of a handler
\* that is not attached it fails with an AssertionError.
C2_RemoveRequiresAttached ==
    [][\A h \in UserHandlers :
        (last'.op = "remove_handler" /\ last'.arg = h) =>
            IF h \in Range(handlers)
            THEN ~last'.raised /\ h \notin Range(handlers')
            ELSE last'.raised]_vars

\* C3 (as claimed): no handler occurs twice in the root logger's handlers, and
\* _default_handler is the same object before and after every
\* enable_default_handler() / disable_default_handler() call.
C3_SameObjectAlways ==
    /\ [](\A h \in AllHandlers : Count(handlers, h) <= 1)
    /\ [][last'.op \in EnableDisable =>
            default_handler' = default_handler]_vars

\* C3 (amended): no handler occurs twice in the root logger's handlers; an
\* enable/disable call made while a default handler exists leaves
\* _default_handler the same object and constructs none; a call made while
\* none exists constructs exactly one, through its own lazy initialization.
C3_AtMostOnceAndNoRecreate ==
    /\ [](\A h \in AllHandlers : Count(handlers, h) <= 1)
    /\ [][last'.op \in EnableDisable =>
            IF default_handler # None
            THEN default_handler' = default_handler /\ created' = created
            ELSE /\ created' = created + 1
                 /\ default_handler' = created']_vars

\* C3 witness: enable_default_handler() has returned with the default handler
\* attached once, next to a caller's handler that was attached before it.
C3_Witness ==
    /\ last.op = "enable_default_handler"
    /\ ~last.inited
    /\ Len(handlers) = 2
    /\ handlers[2] = default_handler
    /\ Count(handlers, default_handler) = 1

\* C4: after disable_default_handler() returns the root logger's handlers do
\* not hold the default handler, after enable_default_handler() returns
\* (following a disable or not) they do, and both calls leave every handler
\* attached with add_handler attached.
C4_DisableThenEnable ==
    [][/\ last'.op = "disable_default_handler" =>
            /\ default_handler' # None
            /\ default_handler' \notin Range(handlers')
       /\ last'.op = "enable_default_handler" =>
            /\ default_handler' # None
            /\ default_handler' \in Range(handlers')
       /\ last'.op \in EnableDisable =>
            \A u \in UserHandlers :
                u \in Range(handlers) <=> u \in Range(handlers')]_vars

\* C4 witness: enable_default_handler() has returned after the default handler
\* had been detached: it is attached again, behind a caller's handler that
\* stayed attached.
C4_Witness ==
    /\ last.op = "enable_default_handler"
    /\ Len(handlers) = 2
    /\ handlers[1] \in UserHandlers
    /\ handlers[2] = default_handler

\* C5 (as claimed): enable_default_handler() / disable_default_handler()
\* called while no default handler exists fail with an AssertionError.
C5_FailsBeforeInit ==
    [][(last'.op \in EnableDisable /\ default_handler = None) =>
            last'.raised]_vars

\* C5 (amended): enable_default_handler() / disable_default_handler() never
\* fail for one caller: called while no default handler exists they run the
\* lazy initialization themselves (a handler is constructed, the level is the
\* environment's default, propagation is off) and then attach / detach it.
C5_InitializesItself ==
    [][last'.op \in EnableDisable =>
        /\ ~last'.raised
        /\ default_handler' # None
        /\ default_handler = None =>
            /\ last'.inited
            /\ default_handler' = created + 1
            /\ level' = get_default_logging_level(env_verbosity)
            /\ ~propagate'
            /\ (last'.op = "enable_default_handler"
                    <=> default_handler' \in Range(handlers'))]_vars

\* C5 witness: disable_default_handler() was the call that initialized: it
\* returned normally, the handler it constructed exists and is detached.
C5_Witness ==
    /\ last.op = "disable_default_handler"
    /\ last.inited
    /\ ~last.raised
    /\ default_handler = 1
    /\ handlers = << >>

\* the level a set_verbosity call, as recorded in last, asked for
LevelAsked(call) ==
    CASE call.op = "set_verbosity" -> call.arg
      [] call.op = "set_verbosity_info" -> INFO
      [] call.op = "set_verbosity_warning" -> WARNING
      [] call.op = "set_verbosity_debug" -> DEBUG
      [] call.op = "set_verbosity_error" -> ERROR

\* C6: get_verbosity() called right after set_verbosity(L), L one of the five
\* named levels, returns L; called right after set_verbosity_debug / _info /
\* _warning / _error() it returns DEBUG / INFO / WARNING / ERROR.
C6_SetThenGet ==
    [][(last.op \in SetVerbosityOps /\ last'.op = "get_verbosity") =>
            /\ ~last'.raised
            /\ last'.val = LevelAsked(last)]_vars

\* C6 witness: get_verbosity() has returned CRITICAL although the environment
\* asked for debug and the level still is CRITICAL: set_verbosity(CRITICAL)
\* was read back.
C6_Witness ==
    /\ last.op = "get_verbosity"
    /\ last.val = CRITICAL
    /\ level = CRITICAL
    /\ env_verbosity = "debug"

\* a value of TRANSFORMERS_VERBOSITY that is a name, and none of log_levels
UnknownName(e) == Truthy(e) /\ e \notin DOMAIN log_levels

\* C8: with TRANSFORMERS_VERBOSITY set to a (non-empty) name that is none of
\* detail, debug, info, warning, error, critical, the get_logger() call that
\* initializes returns a logger and does not raise, emits one warning that
\* names the option and lists the six valid names, and leaves the library root
\* logger at WARNING.
C8_UnknownVerbosityName ==
    [][(last'.op = "get_logger" /\ last'.inited
            /\ UnknownName(env_verbosity)) =>
        /\ ~last'.raised
        /\ last'.logger \in LoggerNames
        /\ level' = WARNING
        /\ py_root_records' =
              Append(py_root_records,
                     [option |-> env_verbosity,
                      valid |-> <<"detail", "debug", "info", "warning",
                                  "error", "critical">>])]_vars

\* C8 witness: the first call was get_logger() under an unknown name.
C8_Witness ==
    /\ last.op = "get_logger"
    /\ last.inited
    /\ created = 1
    /\ env_verbosity = "bogus"
    /\ level = WARNING
    /\ Len(py_root_records) = 1

InitTriggers ==
    SetVerbosityOps \cup EnableDisable
        \cup {"get_logger", "get_verbosity", "add_handler"}

\* C9: a call of get_logger, get_verbosity, set_verbosity, enable/disable_
\* default_handler or add_handler that ran the lazy initialization leaves the
\* root logger's propagate flag false; the flag turns true only in
\* enable_propagation(), which sets it, and disable_propagation() leaves it
\* false.
C9_PropagationOffAfterInit ==
    [][/\ (last'.op \in InitTriggers /\ last'.inited) => ~propagate'
       /\ (~propagate /\ propagate') => last'.op = "enable_propagation"
       /\ last'.op = "enable_propagation" => propagate'
       /\ last'.op = "disable_propagation" => ~propagate']_vars

\* C9 witness: the root logger propagated (as logging creates it) until
\* add_handler ran the initialization; it no longer does.
C9_Witness ==
    /\ last.op = "add_handler"
    /\ last.inited
    /\ created = 1
    /\ ~propagate

\* the functions C16 names: they run the lazy initialization first, and
\* change at most the level, the caller's handler or the propagate flag
IdempotentOps ==
    SetVerbosityOps \cup {"get_logger", "get_verbosity", "add_handler",
                          "disable_propagation", "enable_propagation"}

\* C16: while a default handler exists, a call of get_logger, get_verbosity,
\* set_verbosity, add_handler or a propagation toggle leaves the singleton,
\* the handlers, the level, the propagate flag and the formatters as they
\* are, except that set_verbosity sets the level, add_handler(h) attaches h,
\* and a propagation toggle sets the flag
C16_InitializationIdempotent ==
    [][(last'.op \in IdempotentOps /\ default_handler # None) =>
          /\ ~last'.inited
          /\ default_handler' = default_handler
          /\ created' = created
          /\ formatter' = formatter
          /\ py_root_records' = py_root_records
          /\ handlers' = IF last'.op = "add_handler" /\ ~last'.raised
                         THEN addHandler(handlers, last'.arg) ELSE handlers
          /\ level' = IF last'.op \in SetVerbosityOps THEN LevelAsked(last')
                      ELSE level
          /\ propagate' =
                 CASE last'.op = "disable_propagation" -> FALSE
                   [] last'.op = "enable_propagation" -> TRUE
                   [] OTHER -> propagate]_vars

\* get_logger() has returned without initializing, the default handler is
\* still detached, propagation still on, and the level still the one set
C16_Witness ==
    /\ last.op = "get_logger"
    /\ ~last.inited
    /\ default_handler # None
    /\ default_handler \notin Range(handlers)
    /\ propagate
    /\ level # get_default_logging_level(env_verbosity)
    /\ level # NOTSET

\* C17: _reset_library_root_logger() with a default handler detaches it from
\* the library root logger, sets the logger's level to NOTSET and clears the
\* singleton, and without one changes nothing; the next call that runs the
\* lazy initialization constructs a new handler, attaches it (unless the call
\* is disable_default_handler, which detaches it again), and takes the level
\* from the environment (unless the call is a set_verbosity, which sets its
\* own)
C17_ResetThenReinitialize ==
    [][/\ last'.op = "_reset_library_root_logger" =>
              IF default_handler # None
              THEN /\ handlers' = removeHandler(handlers, default_handler)
                   /\ default_handler \notin Range(handlers')
                   /\ level' = NOTSET
                   /\ default_handler' = None
                   /\ UNCHANGED <<created, propagate, formatter,
                                  py_root_records>>
              ELSE UNCHANGED cfgvars
       /\ (default_handler = None /\ created > 0
               /\ last'.op \in InitTriggers) =>
              /\ last'.inited
              /\ created' = created + 1
              /\ default_handler' = created'
              /\ default_handler' \notin Range(handlers)
              /\ last'.op # "disable_default_handler" =>
                     default_handler' \in Range(handlers')
              /\ level' = IF last'.op \in SetVerbosityOps
                          THEN LevelAsked(last')
                          ELSE get_default_logging_level(env_verbosity)]_vars

\* after a level set with set_verbosity, a reset and a get_logger() call, the
\* second handler is attached, the first is not, a caller's handler is still
\* attached and the level is the environment's
C17_Witness ==
    /\ last.op = "get_logger"
    /\ last.inited
    /\ created = 2
    /\ default_handler = 2
    /\ 2 \in Range(handlers)
    /\ 1 \notin Range(handlers)
    /\ \E h \in UserHandlers : h \in Range(handlers)
    /\ env_verbosity = "error"
    /\ level = ERROR

\* the table of C19, from the value of TRANSFORMERS_VERBOSITY to a level
ResolutionTable ==
    [e \in {"detail", "debug", "info", "warning", "error", "critical", Unset}
        |-> CASE e = "detail" -> DEBUG
              [] e = "debug" -> DEBUG
              [] e = "info" -> INFO
              [] e = "warning" -> WARNING
              [] e = "error" -> ERROR
              [] e = "critical" -> CRITICAL
              [] e = Unset -> WARNING]

LockIgnored(l) == TRUE
LockFree(l) == l = 0

Goto(t, label) == pc' = [pc EXCEPT ![t] = label]

FirstUseCalls ==
    {ThreadCall("get_logger", 0, NoName, lock # 0),
     ThreadCall("get_verbosity", 0, NoName, lock # 0),
     ThreadCall("set_verbosity", DEBUG, NoName, lock # 0),
     ThreadCall("enable_default_handler", 0, NoName, lock # 0)}
    \cup {ThreadCall("add_handler", h, NoName, lock # 0) : h \in UserHandlers}

\* a thread calls one of the functions
T_Call(t) ==
    /\ pc[t] = "idle"
    /\ \E c \in FirstUseCalls : op' = [op EXCEPT ![t] = c]
    /\ Goto(t, "acquire")
    /\ UNCHANGED <<warnvars, barvars, call_site>>
    /\ UNCHANGED <<cfgvars, envvars, logvars, lock, last>>

\* line 128: with _lock
T_Acquire(t) ==
    /\ pc[t] = "acquire"
    /\ LockFree(lock)
    /\ lock' = t
    /\ Goto(t, "check")
    /\ UNCHANGED <<warnvars, barvars, call_site>>
    /\ UNCHANGED <<cfgvars, envvars, logvars, op, last>>

\* lines 130-131: return (and release) when the handler exists
T_Check(t) ==
    /\ pc[t] = "check"
    /\ IF default_handler # None
       THEN lock' = 0 /\ Goto(t, "after")
       ELSE lock' = lock /\ Goto(t, "create")
    /\ UNCHANGED <<warnvars, barvars, call_site>>
    /\ UNCHANGED <<cfgvars, envvars, logvars, op, last>>

\* lines 133-138
T_Create(t) ==
    /\ pc[t] = "create"
    /\ Become(CfgCreate(Cur))
    /\ op' = [op EXCEPT ![t].inited = TRUE]
    /\ Goto(t, "attach")
    /\ UNCHANGED <<warnvars, barvars, call_site>>
    /\ UNCHANGED <<envvars, logvars, lock, last>>

\* lines 141-143
T_Attach(t) ==
    /\ pc[t] = "attach"
    /\ Become(CfgAttach(Cur))
    /\ Goto(t, "setlevel")
    /\ UNCHANGED <<warnvars, barvars, call_site>>
    /\ UNCHANGED <<envvars, logvars, lock, op, last>>

\* line 145
T_SetLevel(t) ==
    /\ pc[t] = "setlevel"
    /\ Become(CfgSetLevel(Cur, env_verbosity))
    /\ Goto(t, "formatter")
    /\ UNCHANGED <<warnvars, barvars, call_site>>
    /\ UNCHANGED <<envvars, logvars, lock, op, last>>

\* lines 147-149
T_Formatter(t) ==
    /\ pc[t] = "formatter"
    /\ Become(CfgFormatter(Cur, env_verbosity))
    /\ Goto(t, "propagate")
    /\ UNCHANGED <<warnvars, barvars, call_site>>
    /\ UNCHANGED <<envvars, logvars, lock, op, last>>

\* line 152, and the end of the with block
T_Propagate(t) ==
    /\ pc[t] = "propagate"
    /\ Become(CfgPropagate(Cur))
    /\ lock' = 0
    /\ Goto(t, "after")
    /\ UNCHANGED <<warnvars, barvars, call_site>>
    /\ UNCHANGED <<envvars, logvars, op, last>>

\* what the thread's function does after _configure_library_root_logger()
AfterConfigure(c, call) ==
    CASE call.op = "get_logger" -> get_logger_after(c, call.name)
      [] call.op = "get_verbosity" -> get_verbosity_after(c)
      [] call.op = "set_verbosity" ->
            set_verbosity_after(c, "set_verbosity", call.arg, call.arg)
      [] call.op = "enable_default_handler" -> enable_default_handler_after(c)
      [] call.op = "add_handler" -> add_handler_after(c, call.arg)

\* the rest of the function, to its return
T_After(t) ==
    /\ pc[t] = "after"
    /\ LET r == AfterConfigure(Cur, op[t]) IN Become(r.st)
    /\ Goto(t, "returned")
    /\ UNCHANGED <<warnvars, barvars, call_site>>
    /\ UNCHANGED <<envvars, logvars, lock, op, last>>

NextFirstUse ==
    \E t \in Threads :
        \/ T_Call(t)
        \/ T_Acquire(t)
        \/ T_Check(t)
        \/ T_Create(t)
        \/ T_Attach(t)
        \/ T_SetLevel(t)
        \/ T_Formatter(t)
        \/ T_Propagate(t)
        \/ T_After(t)

SpecFirstUse == Init /\ [][NextFirstUse]_vars

\* the handlers the initializer constructed that the root logger holds
AttachedDefaults == {i \in 1..Len(handlers) : handlers[i] \in 1..created}

Once(memo, recs, lvl, l, severity, fn, m) ==
    IF <<l, m>> \in memo
    THEN [memo |-> memo, records |-> recs]
    ELSE [memo |-> memo \cup {<<l, m>>},
          records |-> Log(recs, lvl, l, severity, fn, m)]

\* (a variant without the decorator of line 359)
WarningOnceUncached(memo, recs, lvl, l, m) ==
    [memo |-> memo \cup {<<l, m>>},
     records |-> Log(recs, lvl, l, WARNING, "warning_once", m)]
warning_once(memo, recs, lvl, l, m) ==
    Once(memo, recs, lvl, l, WARNING, "warning_once", m)

\* (a variant whose memo key is the argument tuple without the logger)
InfoOnceKeyedByArgs(memo, recs, lvl, l, m) ==
    IF \E k \in memo : k[2] = m
    THEN [memo |-> memo, records |-> recs]
    ELSE [memo |-> memo \cup {<<l, m>>},
          records |-> Log(recs, lvl, l, INFO, "info_once", m)]
info_once(memo, recs, lvl, l, m) ==
    Once(memo, recs, lvl, l, INFO, "info_once", m)

WarningOnce ==
    \E l \in LoggerNames, m \in Msgs :
        LET r == warning_once(warning_once_memo, records, level, l, m) IN
        /\ warning_once_memo' = r.memo
        /\ records' = r.records
        /\ last' = Logged("warning_once", l, m)
        /\ \E site \in CallSites : call_site' = site
        /\ UNCHANGED <<warnvars, barvars>>
        /\ UNCHANGED <<cfgvars, envvars, info_once_memo, thrvars>>

InfoOnce ==
    \E l \in LoggerNames, m \in Msgs :
        LET r == info_once(info_once_memo, records, level, l, m) IN
        /\ info_once_memo' = r.memo
        /\ records' = r.records
        /\ last' = Logged("info_once", l, m)
        /\ \E site \in CallSites : call_site' = site
        /\ UNCHANGED <<warnvars, barvars>>
        /\ UNCHANGED <<cfgvars, envvars, warning_once_memo, thrvars>>

InitOnce ==
    /\ InitModule
    /\ env_verbosity = Unset
    /\ env_no_advisory = Unset

NextOnce ==
    \/ WarningOnce
    \/ InfoOnce
    \/ SetVerbosity

SpecOnce == InitOnce /\ [][NextOnce]_vars

\* the records fn has emitted at severity on logger l with message m
Emitted(l, severity, fn, m) ==
    records[[logger |-> l, levelno |-> severity, funcName |-> fn, msg |-> m]]

\* the records fn has emitted at severity on logger l (Msgs is {"X", "Y"})
EmittedOn(l, severity, fn) ==
    Emitted(l, severity, fn, "X") + Emitted(l, severity, fn, "Y")

\* the distinct argument tuples a memo holds for logger l
TuplesUsed(memo, l) == {m \in Msgs : <<l, m>> \in memo}

\* C7 (as claimed): on every logger the records warning_once has emitted are
\* as many as the distinct argument tuples it was called with, one each, all
\* at WARNING; info_once the same at INFO.
C7_OneRecordPerDistinctArgs ==
    \A l \in LoggerNames :
        /\ EmittedOn(l, WARNING, "warning_once")
              = Cardinality(TuplesUsed(warning_once_memo, l))
        /\ EmittedOn(l, INFO, "info_once")
              = Cardinality(TuplesUsed(info_once_memo, l))

\* the records counted in recs that fn emitted at severity on l with m
EmittedIn(recs, l, severity, fn, m) ==
    recs[[logger |-> l, levelno |-> severity, funcName |-> fn, msg |-> m]]

\* a method's memo and records agree: no tuple has more than one record, and
\* a tuple that is not in the memo has none
OnceState(memo, recs, fn, severity) ==
    \A l \in LoggerNames, m \in Msgs :
        /\ EmittedIn(recs, l, severity, fn, m) <= 1
        /\ <<l, m>> \notin memo => EmittedIn(recs, l, severity, fn, m) = 0

\* a step from (memo, recs) to (memo2, recs2) at root level lvl keeps the
\* memo's tuples and their records, and gives a tuple that enters the memo one
\* record exactly when the logger is enabled for the severity
OnceStep(memo, recs, memo2, recs2, lvl, fn, severity) ==
    \A l \in LoggerNames, m \in Msgs :
        /\ memo \subseteq memo2
        /\ <<l, m>> \in memo =>
              EmittedIn(recs2, l, severity, fn, m)
                  = EmittedIn(recs, l, severity, fn, m)
        /\ (<<l, m>> \notin memo /\ <<l, m>> \in memo2) =>
              EmittedIn(recs2, l, severity, fn, m)
                  = IF severity >= getEffectiveLevel(lvl) THEN 1 ELSE 0

\* C7 (amended): of the calls made one after another on a logger, only the
\* first with each argument tuple can emit, and it emits one record exactly
\* when the logger is enabled for the severity at that call (effective level
\* at most WARNING for warning_once, at most INFO for info_once); every later
\* call with that tuple emits nothing, whatever the level then is.  So two
\* identical calls emit at most one record, and the records are as many as the
\* tuples whose first call found the logger enabled.
C7_OnceIfEnabledAtFirstCall ==
    /\ [](/\ OnceState(warning_once_memo, records, "warning_once", WARNING)
          /\ OnceState(info_once_memo, records, "info_once", INFO))
    /\ [][/\ OnceStep(warning_once_memo, records, warning_once_memo',
                      records', level, "warning_once", WARNING)
          /\ OnceStep(info_once_memo, records, info_once_memo',
                      records', level, "info_once", INFO)]_vars

\* C7 witness: on the library root logger warning_once("X") emitted its one
\* record, warning_once("Y") was first called while the logger was not
\* enabled for WARNING and stays suppressed although the level is DEBUG now.
C7_Witness ==
    /\ last.op = "warning_once"
    /\ last.msg = "Y"
    /\ last.logger = LibraryName
    /\ level = DEBUG
    /\ TuplesUsed(warning_once_memo, LibraryName) = {"X", "Y"}
    /\ Emitted(LibraryName, WARNING, "warning_once", "X") = 1
    /\ Emitted(LibraryName, WARNING, "warning_once", "Y") = 0

\* C20 as stated: for every argument tuple, warning_once called with it on
\* a logger has emitted one record on that logger, on each of two loggers
\* and from whichever call sites; and an info_once call is not suppressed by
\* warning_once's memo, nor a warning_once call by info_once's
C20_OneRecordPerLoggerAndMethod ==
    /\ [](\A l \in LoggerNames, m \in Msgs :
              <<l, m>> \in warning_once_memo =>
                  Emitted(l, WARNING, "warning_once", m) = 1)
    /\ [][/\ (last'.op = "info_once"
                  /\ <<last'.logger, last'.msg>> \notin info_once_memo
                  /\ isEnabledFor(level, INFO)) =>
                 EmittedIn(records', last'.logger, INFO, "info_once",
                           last'.msg) = 1
          /\ (last'.op = "warning_once"
                  /\ <<last'.logger, last'.msg>> \notin warning_once_memo
                  /\ isEnabledFor(level, WARNING)) =>
                 EmittedIn(records', last'.logger, WARNING, "warning_once",
                           last'.msg) = 1]_vars

\* the record a first call with a new key emits at root level lvl: one if
\* the logger is enabled for the severity, else none
FirstCallEmits(memo, l, m, lvl, severity) ==
    IF <<l, m>> \notin memo /\ isEnabledFor(lvl, severity) THEN 1 ELSE 0

\* C20: a warning_once(l, m) call adds the key (l, m) to warning_once's memo
\* and nothing to info_once's, and emits one record iff that key was not in
\* warning_once's memo and l is enabled for WARNING at the call, whatever
\* the call site, whatever other loggers were called with m and whatever
\* info_once's memo holds; info_once the same with its own memo and INFO; no
\* key ever has more than one record
C20_KeyIsLoggerAndArgs ==
    /\ [](/\ OnceState(warning_once_memo, records, "warning_once", WARNING)
          /\ OnceState(info_once_memo, records, "info_once", INFO))
    /\ [][/\ last'.op = "warning_once" =>
                 /\ warning_once_memo'
                        = warning_once_memo \cup {<<last'.logger, last'.msg>>}
                 /\ info_once_memo' = info_once_memo
                 /\ EmittedIn(records', last'.logger, WARNING, "warning_once",
                              last'.msg)
                        = EmittedIn(records, last'.logger, WARNING,
                                    "warning_once", last'.msg)
                          + FirstCallEmits(warning_once_memo, last'.logger,
                                           last'.msg, level, WARNING)
          /\ last'.op = "info_once" =>
                 /\ info_once_memo'
                        = info_once_memo \cup {<<last'.logger, last'.msg>>}
                 /\ warning_once_memo' = warning_once_memo
                 /\ EmittedIn(records', last'.logger, INFO, "info_once",
                              last'.msg)
                        = EmittedIn(records, last'.logger, INFO, "info_once",
                                    last'.msg)
                          + FirstCallEmits(info_once_memo, last'.logger,
                                           last'.msg, level, INFO)
          /\ (last.op = last'.op /\ last.logger = last'.logger
                  /\ last.msg = last'.msg /\ call_site' # call_site) =>
                 records' = records]_vars

\* warning_once("X") has emitted one record on each of the two loggers,
\* info_once("X") one on the library root logger after warning_once("X")
\* there, and the latest call, from the second call site, repeated the one
\* before it
C20_Witness ==
    /\ \A l \in LoggerNames : Emitted(l, WARNING, "warning_once", "X") = 1
    /\ Emitted(LibraryName, INFO, "info_once", "X") = 1
    /\ Emitted(ChildName, INFO, "info_once", "X") = 0
    /\ <<ChildName, "X">> \notin info_once_memo
    /\ last.op = "warning_once"
    /\ last.msg = "X"
    /\ call_site = "site_b"

\* ---------------------------------------------- warning_advice: SpecAdvice

\* values of TRANSFORMERS_NO_ADVISORY_WARNINGS: absent, empty, "1", "0"
AdvisoryValues == {Unset, "", "1", "0"}

\* lines 350-353
\* (a variant that tests the variable for presence, not for truth)
WarningAdviceUnlessNone(recs, lvl, flag, l, m) ==
    IF flag = Unset THEN Log(recs, lvl, l, WARNING, "warning_advice", m)
    ELSE recs
warning_advice(recs, lvl, flag, l, m) ==
    IF Truthy(flag) THEN recs
    ELSE Log(recs, lvl, l, WARNING, "warning_advice", m)

\* a call is left out once MaxRecords records of its kind were emitted
WarningAdvice ==
    \E l \in LoggerNames, m \in Msgs :
        /\ Emitted(l, WARNING, "warning_advice", m) < MaxRecords
        /\ records' = warning_advice(records, level, env_no_advisory, l, m)
        /\ last' = Logged("warning_advice", l, m)
        /\ UNCHANGED <<warnvars, barvars, call_site>>
        /\ UNCHANGED <<cfgvars, envvars, warning_once_memo, info_once_memo,
                       thrvars>>

\* the program sets or deletes os.environ's TRANSFORMERS_NO_ADVISORY_WARNINGS
SetNoAdvisoryEnv ==
    \E v \in AdvisoryValues :
        /\ env_no_advisory' = v
        /\ last' = Returned("os.environ", 0, 0, "")
        /\ UNCHANGED <<warnvars, barvars, call_site>>
        /\ UNCHANGED <<cfgvars, env_verbosity, logvars, thrvars>>

InitAdvice ==
    /\ InitModule
    /\ env_verbosity = Unset
    /\ env_no_advisory \in AdvisoryValues

NextAdvice ==
    \/ WarningAdvice
    \/ SetNoAdvisoryEnv
    \/ SetVerbosity

SpecAdvice == InitAdvice /\ [][NextAdvice]_vars

\* records with one more record of kind k
OneMore(recs, k) == [recs EXCEPT ![k] = @ + 1]

\* C10: a warning_advice call made while TRANSFORMERS_NO_ADVISORY_WARNINGS is
\* set (to a non-empty value: "1", and "0" as well) emits no record, whatever
\* the logger and the message; made while it is unset (or empty) it emits what
\* Logger.warning emits for that logger and message: one WARNING record when
\* the logger is enabled for WARNING, none otherwise.  The value at the time of
\* the call decides: setting or deleting the variable emits and retracts
\* nothing.
C10_AdvisoryFlagDecidesPerCall ==
    [][/\ last'.op = "warning_advice" =>
            records' =
                IF env_no_advisory \in {"1", "0"}
                THEN records
                ELSE IF WARNING >= getEffectiveLevel(level)
                     THEN OneMore(records,
                                  [logger |-> last'.logger, levelno |-> WARNING,
                                   funcName |-> "warning_advice",
                                   msg |-> last'.msg])
                     ELSE records
       /\ env_no_advisory' # env_no_advisory => records' = records]_vars

\* C10 witness: a warning_advice("X") call emitted a record while the variable
\* was unset; the variable was then set, and the warning_advice("X") call that
\* just returned emitted nothing.
C10_Witness ==
    /\ last.op = "warning_advice"
    /\ last.msg = "X"
    /\ last.logger = ChildName
    /\ env_no_advisory = "1"
    /\ Emitted(ChildName, WARNING, "warning_advice", "X") = 1

\* ------------------------------------------ captureWarnings: SpecCapture

PyWarningsName == "py.warnings"

\* lines 179-184 on the logger "py.warnings" with handlers hs, after the
\* get_logger call of line 178 left the state c
\* (a variant that attaches the default handler whatever the logger holds)
CaptureAlwaysAttaches(c, hs, capture) ==
    [st |-> c,
     pyw_handlers |-> addHandler(hs, c.default_handler),
     pyw_level |-> c.level,
     warnings_captured |-> capture,
     out |-> Returned("captureWarnings", IF capture THEN 1 ELSE 0, 0, "")]
captureWarnings_after(c, hs, capture) ==
    [st |-> c,
     pyw_handlers |-> IF hs = << >> THEN addHandler(hs, c.default_handler)
                      ELSE hs,
     pyw_level |-> c.level,
     warnings_captured |-> capture,
     out |-> Returned("captureWarnings", IF capture THEN 1 ELSE 0, 0, "")]

captureWarnings(s, e, hs, capture) ==
    captureWarnings_after(get_logger(s, e, PyWarningsName).st, hs, capture)

CaptureWarnings ==
    \E capture \in BOOLEAN :
        LET r == captureWarnings(Cur, env_verbosity, pyw_handlers, capture) IN
        /\ Become(r.st)
        /\ pyw_handlers' = r.pyw_handlers
        /\ pyw_level' = r.pyw_level
        /\ warnings_captured' = r.warnings_captured
        /\ last' = [r.out EXCEPT !.inited = (r.st.created # created)]
        /\ UNCHANGED <<envvars, logvars, thrvars, barvars, call_site>>

\* set_verbosity(NOTSET), NOTSET being one of the names line 30 imports
SetVerbosityNotset == Do(set_verbosity(Cur, env_verbosity, NOTSET))

NextCapture ==
    \/ CaptureWarnings
    \/ GetVerbosity
    \/ SetVerbosity
    \/ SetVerbosityNotset
    \/ Reset

SpecCapture == Init /\ [][NextCapture]_vars

\* C11 as stated: after captureWarnings(capture) returns, the logger
\* "py.warnings" holds the default handler, its level is the library root
\* logger's effective level (what get_verbosity() returns), and the capture
\* switch is capture
C11_HandlerAndEffectiveLevel ==
    [][last'.op = "captureWarnings" =>
          /\ default_handler' \in Range(pyw_handlers')
          /\ pyw_level' = get_verbosity_after(Cur').out.val
          /\ warnings_captured' = (last'.arg = 1)]_vars

\* C11: after captureWarnings(capture) returns, the logger "py.warnings"
\* holds exactly the default handler if it held no handler at the call and
\* otherwise the handlers it held; its level is the library root logger's own
\* level, which is what get_verbosity() returns unless that level is NOTSET;
\* the capture switch is capture
C11_AttachesOnlyWhenEmpty ==
    [][last'.op = "captureWarnings" =>
          /\ default_handler' # None
          /\ pyw_handlers = << >> => pyw_handlers' = <<default_handler'>>
          /\ pyw_handlers # << >> => pyw_handlers' = pyw_handlers
          /\ pyw_level' = level'
          /\ level' # NOTSET => pyw_level' = get_verbosity_after(Cur').out.val
          /\ warnings_captured' = (last'.arg = 1)]_vars

\* captureWarnings(True) has returned on a "py.warnings" logger that holds an
\* earlier default handler and not the current one
C11_Witness ==
    /\ last.op = "captureWarnings"
    /\ pyw_handlers # << >>
    /\ default_handler \notin Range(pyw_handlers)
    /\ warnings_captured

\* ----------------------------------------------- progress bars: SpecBars

\* is_progress_bar_enabled, line 436
is_progress_bar_enabled(active) == active

\* enable_progress_bar, lines 441-443: the module flag, then
\* hf_hub_utils.enable_progress_bars(), which clears the library's switch
\* (a variant that leaves the library's switch alone)
EnableFlagOnly(active, disabled) ==
    [tqdm_active |-> TRUE, hf_disabled |-> disabled]
enable_progress_bar(active, disabled) ==
    [tqdm_active |-> TRUE, hf_disabled |-> FALSE]

\* disable_progress_bar, lines 448-450
disable_progress_bar(active, disabled) ==
    [tqdm_active |-> FALSE, hf_disabled |-> TRUE]

\* the arguments of a factory call: the iterable first and positional, or as
\* the keyword iterable= of tqdm's signature, or none
ConstructorArgs ==
    {[how |-> "none", given |-> << >>]} \cup
    {[how |-> h, given |-> xs] : h \in {"positional", "keyword"},
                                 xs \in Iterables}

\* EmptyTqdm.__init__, line 393: args[0] if args else None
EmptyTqdm_init(a) ==
    [cls |-> "EmptyTqdm", how |-> a.how, given |-> a.given,
     has_iterator |-> a.how = "positional",
     iterator |-> IF a.how = "positional" THEN a.given ELSE << >>]

\* tqdm.auto's tqdm(iterable=None, ...)
tqdm_lib_tqdm(a) ==
    [cls |-> "tqdm", how |-> a.how, given |-> a.given,
     has_iterator |-> a.how # "none", iterator |-> a.given]

\* _tqdm_cls.__call__, lines 414-418
\* (a variant that returns the real progress bar whatever the flag holds)
FactoryAlwaysReal(active, a) == tqdm_lib_tqdm(a)
tqdm_call(active, a) == IF active THEN tqdm_lib_tqdm(a) ELSE EmptyTqdm_init(a)

\* EmptyTqdm.__iter__, line 396: iter(self._iterator), which yields the
\* elements from first to last, and raises TypeError for iter(None)
EmptyTqdm_iter(b, i) ==
    IF b.has_iterator
    THEN [BarReturned("__iter__", i) EXCEPT
              !.yielded = [k \in 1..Len(b.iterator) |-> b.iterator[k]]]
    ELSE BarRaised("__iter__", i)

\* the method names callers use on a progress bar
MethodNames == {"update", "close", "set_description"}

\* EmptyTqdm.__getattr__, lines 398-404: empty_fn, which returns None
EmptyTqdm_getattr(b, i, name) == BarReturned(name, i)

\* EmptyTqdm.__enter__, line 407: return self
EmptyTqdm_enter(b, i) == [BarReturned("__enter__", i) EXCEPT !.obj = i]

\* EmptyTqdm.__exit__, line 410: return
EmptyTqdm_exit(b, i) == BarReturned("__exit__", i)

\* _tqdm_cls.set_lock, lines 420-423
tqdm_set_lock(active, lk, lock_arg) ==
    [factory_lock |-> NoLock,
     tqdm_lock |-> IF active THEN lock_arg ELSE lk,
     out |-> [BarReturned("set_lock", 0) EXCEPT !.reached = active]]

\* _tqdm_cls.get_lock, lines 425-427
tqdm_get_lock(active, lk) ==
    [BarReturned("get_lock", 0) EXCEPT
         !.lock = IF active THEN lk ELSE NoLock, !.reached = active]

notbars == <<cfgvars, envvars, logvars, thrvars, last, call_site, warnvars>>

IsProgressBarEnabled ==
    /\ ret' = [BarReturned("is_progress_bar_enabled", 0) EXCEPT
                   !.enabled = is_progress_bar_enabled(tqdm_active)]
    /\ UNCHANGED <<notbars, tqdm_active, hf_disabled, bars, tqdm_lock,
                   factory_lock>>

EnableProgressBar ==
    LET r == enable_progress_bar(tqdm_active, hf_disabled) IN
    /\ tqdm_active' = r.tqdm_active
    /\ hf_disabled' = r.hf_disabled
    /\ ret' = BarReturned("enable_progress_bar", 0)
    /\ UNCHANGED <<notbars, bars, tqdm_lock, factory_lock>>

DisableProgressBar ==
    LET r == disable_progress_bar(tqdm_active, hf_disabled) IN
    /\ tqdm_active' = r.tqdm_active
    /\ hf_disabled' = r.hf_disabled
    /\ ret' = BarReturned("disable_progress_bar", 0)
    /\ UNCHANGED <<notbars, bars, tqdm_lock, factory_lock>>

\* tqdm(...): the factory object of line 430 called
TqdmCall ==
    /\ Len(bars) < MaxBars
    /\ \E a \in ConstructorArgs :
           /\ bars' = Append(bars, tqdm_call(tqdm_active, a))
           /\ ret' = [BarReturned("tqdm", 0) EXCEPT !.obj = Len(bars) + 1]
    /\ UNCHANGED <<notbars, tqdm_active, hf_disabled, tqdm_lock, factory_lock>>

EmptyBars == {i \in 1..Len(bars) : bars[i].cls = "EmptyTqdm"}

BarIter ==
    /\ \E i \in EmptyBars : ret' = EmptyTqdm_iter(bars[i], i)
    /\ UNCHANGED <<notbars, tqdm_active, hf_disabled, bars, tqdm_lock,
                   factory_lock>>

BarMethod ==
    /\ \E i \in EmptyBars, name \in MethodNames :
           ret' = EmptyTqdm_getattr(bars[i], i, name)
    /\ UNCHANGED <<notbars, tqdm_active, hf_disabled, bars, tqdm_lock,
                   factory_lock>>

BarEnter ==
    /\ \E i \in EmptyBars : ret' = EmptyTqdm_enter(bars[i], i)
    /\ UNCHANGED <<notbars, tqdm_active, hf_disabled, bars, tqdm_lock,
                   factory_lock>>

BarExit ==
    /\ \E i \in EmptyBars : ret' = EmptyTqdm_exit(bars[i], i)
    /\ UNCHANGED <<notbars, tqdm_active, hf_disabled, bars, tqdm_lock,
                   factory_lock>>

TqdmSetLock ==
    /\ \E lock_arg \in UserLocks :
           LET r == tqdm_set_lock(tqdm_active, tqdm_lock, lock_arg) IN
           /\ factory_lock' = r.factory_lock
           /\ tqdm_lock' = r.tqdm_lock
           /\ ret' = r.out
    /\ UNCHANGED <<notbars, tqdm_active, hf_disabled, bars>>

TqdmGetLock ==
    /\ ret' = tqdm_get_lock(tqdm_active, tqdm_lock)
    /\ UNCHANGED <<notbars, tqdm_active, hf_disabled, bars, tqdm_lock,
                   factory_lock>>

InitBars ==
    /\ InitLogging
    /\ env_verbosity = Unset
    /\ env_no_advisory = Unset
    /\ \E disabled \in BOOLEAN : InitProgressBars(disabled)

NextBars ==
    \/ IsProgressBarEnabled
    \/ EnableProgressBar
    \/ DisableProgressBar
    \/ TqdmCall
    \/ BarIter
    \/ BarMethod
    \/ BarEnter
    \/ BarExit
    \/ TqdmSetLock
    \/ TqdmGetLock

SpecBars == InitBars /\ [][NextBars]_vars

BarToggles == {"enable_progress_bar", "disable_progress_bar"}

\* C12: the module flag and huggingface_hub's switch agree in every state;
\* enable_progress_bar() leaves the flag true and disable_progress_bar()
\* false, no other call changes it, and is_progress_bar_enabled() returns the
\* flag: so it returns true iff the latest toggle was enable_progress_bar()
\* or, with no toggle, iff the library was not disabled at import
C12_FlagFollowsLatestToggle ==
    /\ [](tqdm_active = ~hf_disabled)
    /\ [][/\ ret'.op = "enable_progress_bar" => tqdm_active'
          /\ ret'.op = "disable_progress_bar" => ~tqdm_active'
          /\ ret'.op \notin BarToggles => tqdm_active' = tqdm_active
          /\ ret'.op = "is_progress_bar_enabled" =>
                 ret'.enabled = tqdm_active]_vars

\* is_progress_bar_enabled() has returned true after a time when the bars
\* were disabled, and the library's switch is off
C12_Witness ==
    /\ ret.op = "is_progress_bar_enabled"
    /\ ret.enabled
    /\ ~hf_disabled
    /\ EmptyBars # {}

\* C13: iterating a null progress object that was constructed over an
\* iterable yields that iterable's elements in order; any other method call
\* on it returns None, raises nothing and changes nothing; __enter__ returns
\* the object itself and __exit__ returns None and changes nothing
C13_NullObjectContract ==
    [][/\ (ret'.op = "__iter__" /\ bars[ret'.on].how # "none") =>
              /\ ~ret'.raised
              /\ ret'.yielded = bars[ret'.on].given
       /\ ret'.op \in MethodNames \cup {"__exit__"} =>
              /\ ret' = BarReturned(ret'.op, ret'.on)
              /\ UNCHANGED <<notbars, tqdm_active, hf_disabled, bars,
                             tqdm_lock, factory_lock>>
       /\ ret'.op = "__enter__" =>
              /\ ~ret'.raised
              /\ ret'.obj = ret'.on
              /\ UNCHANGED <<notbars, tqdm_active, hf_disabled, bars,
                             tqdm_lock, factory_lock>>]_vars

BarCalls == {"tqdm", "set_lock", "get_lock"}

\* C14: a factory call returns a real progress bar iff the flag is true at
\* the call and a null object otherwise; no call changes an object returned
\* earlier; while the flag is false get_lock() returns None and set_lock()
\* does not reach tqdm.auto's class
C14_FactoryDecidesPerCall ==
    [][/\ ret'.op = "tqdm" /\ ret' # ret =>
              /\ Len(bars') = Len(bars) + 1
              /\ ret'.obj = Len(bars')
              /\ bars'[ret'.obj].cls = "tqdm" <=> tqdm_active
              /\ bars'[ret'.obj].cls = "EmptyTqdm" <=> ~tqdm_active
       /\ \A i \in 1..Len(bars) : Len(bars') >= i /\ bars'[i] = bars[i]
       /\ (ret'.op = "get_lock" /\ ~tqdm_active) =>
              /\ ret'.lock = NoLock
              /\ ~ret'.reached
       /\ (ret'.op = "set_lock" /\ ~tqdm_active) =>
              /\ ~ret'.reached
              /\ tqdm_lock' = tqdm_lock
       /\ ret'.op \in BarCalls => tqdm_active' = tqdm_active]_vars

\* the factory has returned a null object after it had returned a real
\* progress bar, and a later get_lock() has returned None
C14_Witness ==
    /\ Len(bars) = 2
    /\ bars[1].cls = "tqdm"
    /\ bars[2].cls = "EmptyTqdm"
    /\ ret.op = "get_lock"
    /\ ret.lock = NoLock
    /\ ~tqdm_active
    /\ tqdm_lock \in UserLocks

\* ------------------------------ enable_explicit_format / reset_format

\* the formatter of line 327: "[%(levelname)s|%(filename)s:%(lineno)s] ..."
ExplicitFormat == "explicit"

\* enable_explicit_format, lines 326-330: setFormatter on every handler the
\* library root logger holds; no _configure_library_root_logger() call
enable_explicit_format(s) ==
    [st |-> [s EXCEPT !.formatter =
                 [h \in AllHandlers |->
                     IF h \in Range(s.handlers) THEN ExplicitFormat
                     ELSE s.formatter[h]]],
     out |-> Returned("enable_explicit_format", 0, 0, "")]

\* reset_format, lines 339-342: setFormatter(None) on every handler the
\* library root logger holds
\* (a variant that also resets the default handler when it is detached)
ResetFormatDefaultToo(s) ==
    [st |-> [s EXCEPT !.formatter =
                 [h \in AllHandlers |->
                     IF h \in Range(s.handlers) \/ h = s.default_handler
                     THEN "none" ELSE s.formatter[h]]],
     out |-> Returned("reset_format", 0, 0, "")]
reset_format(s) ==
    [st |-> [s EXCEPT !.formatter =
                 [h \in AllHandlers |->
                     IF h \in Range(s.handlers) THEN "none"
                     ELSE s.formatter[h]]],
     out |-> Returned("reset_format", 0, 0, "")]

EnableExplicitFormat == Do(enable_explicit_format(Cur))

ResetFormat == Do(reset_format(Cur))

NextFormat ==
    \/ GetLogger
    \/ DisableDefaultHandler
    \/ EnableDefaultHandler
    \/ AddHandler
    \/ EnableExplicitFormat
    \/ ResetFormat
    \/ Reset

SpecFormat == Init /\ [][NextFormat]_vars

\* C15: enable_explicit_format() leaves the explicit formatter on every
\* handler the library root logger holds at the call, reset_format() leaves
\* no formatter on every such handler, a detailed one included; a handler
\* the logger does not hold at the call keeps the formatter it has, and the
\* handler set, the singleton and the level are as before
C15_FormatTouchesAttachedOnly ==
    [][/\ last'.op = "enable_explicit_format" =>
              \A h \in AllHandlers :
                  /\ h \in Range(handlers) => formatter'[h] = ExplicitFormat
                  /\ h \notin Range(handlers) => formatter'[h] = formatter[h]
       /\ last'.op = "reset_format" =>
              \A h \in AllHandlers :
                  /\ h \in Range(handlers) => formatter'[h] = "none"
                  /\ h \notin Range(handlers) => formatter'[h] = formatter[h]
       /\ last'.op \in {"enable_explicit_format", "reset_format"} =>
              UNCHANGED <<default_handler, created, handlers, level,
                          propagate>>]_vars

\* reset_format() has returned while the default handler, given the detailed
\* formatter at initialization, was detached and a caller's handler was
\* attached
C15_Witness ==
    /\ last.op = "reset_format"
    /\ default_handler # None
    /\ default_handler \notin Range(handlers)
    /\ formatter[default_handler] = "detail"
    /\ handlers # << >>
    /\ \A h \in Range(handlers) : formatter[h] = "none"

\* ------------------------- several threads, with resets: SpecInitReset
\* Threads call, again and again, functions that run the lazy initialization
\* and _reset_library_root_logger; every source statement of the two
\* `with _lock` blocks is one step.

InitResetCalls ==
    {ThreadCall("get_logger", 0, NoName, lock # 0),
     ThreadCall("set_verbosity", DEBUG, NoName, lock # 0)}

\* a thread calls a function that runs _configure_library_root_logger()
I_Call(t) ==
    /\ pc[t] \in {"idle", "returned"}
    /\ \E c \in InitResetCalls : op' = [op EXCEPT ![t] = c]
    /\ Goto(t, "acquire")
    /\ UNCHANGED <<warnvars, barvars, call_site>>
    /\ UNCHANGED <<cfgvars, envvars, logvars, lock, last>>

\* a thread calls _reset_library_root_logger()
R_Call(t) ==
    /\ pc[t] \in {"idle", "returned"}
    /\ op' = [op EXCEPT ![t] =
                  ThreadCall("_reset_library_root_logger", 0, NoName, lock # 0)]
    /\ Goto(t, "r_acquire")
    /\ UNCHANGED <<warnvars, barvars, call_site>>
    /\ UNCHANGED <<cfgvars, envvars, logvars, lock, last>>

\* line 158: with _lock
R_Acquire(t) ==
    /\ pc[t] = "r_acquire"
    /\ LockFree(lock)
    /\ lock' = t
    /\ Goto(t, "r_check")
    /\ UNCHANGED <<warnvars, barvars, call_site>>
    /\ UNCHANGED <<cfgvars, envvars, logvars, op, last>>

\* lines 159-160: return (and release) when no handler exists; a reset that
\* would let the initializer construct more than MaxCreated handlers is left
\* out
R_Check(t) ==
    /\ pc[t] = "r_check"
    /\ default_handler = None \/ created < MaxCreated
    /\ IF default_handler = None
       THEN lock' = 0 /\ Goto(t, "returned")
       ELSE lock' = lock /\ Goto(t, "r_remove")
    /\ UNCHANGED <<warnvars, barvars, call_site>>
    /\ UNCHANGED <<cfgvars, envvars, logvars, op, last>>

\* lines 162-163
R_Remove(t) ==
    /\ pc[t] = "r_remove"
    /\ Become(ResetDetach(Cur))
    /\ Goto(t, "r_setlevel")
    /\ UNCHANGED <<warnvars, barvars, call_site>>
    /\ UNCHANGED <<envvars, logvars, lock, op, last>>

\* line 164
R_SetLevel(t) ==
    /\ pc[t] = "r_setlevel"
    /\ Become(ResetSetLevel(Cur))
    /\ Goto(t, "r_clear")
    /\ UNCHANGED <<warnvars, barvars, call_site>>
    /\ UNCHANGED <<envvars, logvars, lock, op, last>>

\* line 165, and the end of the with block
R_Clear(t) ==
    /\ pc[t] = "r_clear"
    /\ Become(ResetClear(Cur))
    /\ lock' = 0
    /\ Goto(t, "returned")
    /\ UNCHANGED <<warnvars, barvars, call_site>>
    /\ UNCHANGED <<envvars, logvars, op, last>>

NextInitReset ==
    \E t \in Threads :
        \/ I_Call(t)
        \/ R_Call(t)
        \/ T_Acquire(t)
        \/ T_Check(t)
        \/ T_Create(t)
        \/ T_Attach(t)
        \/ T_SetLevel(t)
        \/ T_Formatter(t)
        \/ T_Propagate(t)
        \/ T_After(t)
        \/ R_Acquire(t)
        \/ R_Check(t)
        \/ R_Remove(t)
        \/ R_SetLevel(t)
        \/ R_Clear(t)

SpecInitReset == Init /\ [][NextInitReset]_vars

\* C18: in every state where _lock is free, _default_handler is set iff
\* exactly one handler the initializer constructed is attached to the library
\* root logger; every such attached handler is _default_handler, so none of
\* an earlier initialization remains attached
C18_SingletonMatchesAttachedWhenLockFree ==
    lock = 0 =>
        /\ default_handler # None <=> Cardinality(AttachedDefaults) = 1
        /\ \A i \in AttachedDefaults : handlers[i] = default_handler
        /\ default_handler # None => Count(handlers, default_handler) = 1

\* the lock is free after an initialization, a reset that cleared it and a
\* second initialization: the second handler is the singleton and the only
\* handler attached; one thread's reset, called while another thread held
\* the lock, has returned, and another thread's call has initialized
C18_Witness ==
    /\ lock = 0
    /\ created = 2
    /\ default_handler = 2
    /\ handlers = <<2>>
    /\ \E t \in Threads :
           /\ op[t].op = "_reset_library_root_logger"
           /\ op[t].overlapped
           /\ pc[t] = "returned"
    /\ \E t \in Threads : op[t].inited /\ op[t].overlapped

====
